---- MODULE Spec2Model ----
(***************************************************************************)
(* Model of framewise_meet_client: the event dispatcher                    *)
(* (event_handler.py), the session run loop and handler registration       *)
(* (app.py), the outbound message sender (messaging.py) and the reconnect  *)
(* loops of agent_connector.py and meeting_discovery.py.                   *)
(***************************************************************************)
EXTENDS Integers, Sequences, FiniteSets, TLC

VARIABLES
    handlers,       \* EventDispatcher._handlers: event type -> list of handlers
    dpc,            \* position of the dispatch coroutine: "idle" | "iterating" | "returned"
    dtype,          \* event_type argument of the dispatch in progress
    rawmsg,         \* message argument of the dispatch in progress
    dmsg,           \* model_message of the dispatch in progress
    atCall,         \* handler list of dtype at the moment dispatch was called
    snapshot,       \* handlers = self._handlers[event_type].copy()
    idx,            \* position of the for loop in the iterated list (1-based)
    invoked,        \* handlers invoked by the dispatch in progress, in order
    called,         \* application callbacks whose body ran in this dispatch
    escaped,        \* an exception left dispatch
    pc,             \* position of App.run
    running,        \* App.running
    connected,      \* App.connection.connected
    auto_reconnect, \* argument of App.run
    reconnect_delay,\* argument of App.run
    waitFor,        \* seconds of the time.sleep in progress (0: none)
    fails,          \* connect errors and connection losses since the last successful connect
    rejected,       \* a handler of a connection_rejected event cleared the running flag
    ready,          \* send coroutines scheduled on the event loop, not yet run
    outcome,        \* what became of each send request
    nextId,         \* number of the next send request
    origin,         \* how each send request was handed to the loop
    authOutcome,    \* what the credential check of run gave
    stopAsked,      \* the application asked run to end: stop, or an interrupt
    lastFrame,      \* a frame the last receive gave that cannot be dispatched
    logged,         \* error lines that run has logged for that frame
    resolved,       \* the last name looked up in the alias table, and its kind
    trip,           \* the last MCQ question encoded and decoded again
    built,          \* what the last call of a send method built
    orphaned,       \* a connection the App no longer refers to has its socket open
    bpc,            \* position of each reconnect loop (connect_and_listen, await_meeting)
    bdelay,         \* the local reconnect_delay of each loop
    brunning,       \* AgentConnector.running
    btimeout,       \* await_meeting was given a timeout
    bslept,         \* delays each loop slept since its last successful connect
    bprev,          \* reconnect_delay of a loop just before its connect succeeded
    bmsg,           \* the message each loop has received and is handling
    bended,         \* a connection (attempt) of the loop ended and it has not slept since
    bresult,        \* what await_meeting returned
    active_agents   \* number of entries of AgentConnector.active_agents

dispVars == <<handlers, dpc, dtype, rawmsg, dmsg, atCall, snapshot, idx,
              invoked, called, escaped>>

runVars == <<pc, connected, auto_reconnect, reconnect_delay, waitFor, fails>>

sendVars == <<ready, outcome, nextId, origin>>

bkVars == <<bpc, bdelay, brunning, btimeout, bslept, bprev, bmsg, bended,
            bresult, active_agents>>

startVars == <<authOutcome, stopAsked>>

frameVars == <<lastFrame, logged>>

aliasVars == <<resolved>>

outVars == <<trip, built>>

joinVars == <<orphaned>>

vars == <<dispVars, runVars, running, rejected, sendVars, bkVars, startVars,
          frameVars, aliasVars, outVars, joinVars>>

----------------------------------------------------------------------------
(* Bounds of the model *)

MaxHandlers == 3    \* registrations in the handler table, all kinds together
MaxSends == 2       \* send requests in one session
MaxFails == 3       \* consecutive failures counted by the run loop
MaxAttempts == 8    \* failed connection attempts in a row of a reconnect loop
MaxAgents == 2      \* agent processes tracked by one AgentConnector

----------------------------------------------------------------------------
(* Inbound message models (models/inbound.py) *)

NoClass == "None"

ModelClasses ==
    {"TranscriptMessage", "InvokeMessage", "JoinMessage", "ExitMessage",
     "CustomUIElementResponse", "ConnectionRejectedMessage"}

\* The Literal[...] annotation of each model's type field.
TypeLiteral(cls) ==
    CASE cls = "TranscriptMessage"         -> "transcript"
      [] cls = "InvokeMessage"             -> "invoke"
      [] cls = "JoinMessage"               -> "on_join"
      [] cls = "ExitMessage"               -> "on_exit"
      [] cls = "CustomUIElementResponse"   -> "custom_ui"
      [] cls = "ConnectionRejectedMessage" -> "connection_rejected"

\* The model of each message's content field.
ContentSchema(cls) ==
    CASE cls = "TranscriptMessage"         -> "TranscriptContent"
      [] cls = "InvokeMessage"             -> "InvokeContent"
      [] cls = "JoinMessage"               -> "JoinEvent"
      [] cls = "ExitMessage"               -> "ExitEvent"
      [] cls = "CustomUIElementResponse"   -> "CustomUIEvent"
      [] cls = "ConnectionRejectedMessage" -> "ConnectionRejectedEvent"

\* A content is named by the schema whose required fields it carries;
\* "other" carries the required fields of none.  JoinEvent and ExitEvent
\* require the same fields (meeting_id, participant_id).
ContentValidates(schema, content) ==
    \/ content = schema
    \/ {schema, content} = {"JoinEvent", "ExitEvent"}

\* model_class(**message): the type key, when present, must equal the
\* Literal, and content must validate against the content model.
Validates(cls, message) ==
    /\ message.type \in {TypeLiteral(cls), "absent"}
    /\ ContentValidates(ContentSchema(cls), message.content)

Dict(type, content) ==
    [form |-> "dict", cls |-> NoClass, type |-> type, content |-> content]

Model(cls, type, content) ==
    [form |-> "model", cls |-> cls, type |-> type, content |-> content]

\* isinstance(message, message_class)
IsInstance(message, cls) == message.form = "model" /\ message.cls = cls

----------------------------------------------------------------------------
(* EventDispatcher (event_handler.py) *)

MESSAGE_TYPE_MAPPING ==
    [k \in {"transcript", "join", "exit", "custom_ui", "custom_ui_element",
            "connection_rejected"} |->
        CASE k = "transcript"          -> "TranscriptMessage"
          [] k = "join"                -> "JoinMessage"
          [] k = "exit"                -> "ExitMessage"
          [] k = "custom_ui"           -> "CustomUIElementResponse"
          [] k = "custom_ui_element"   -> "CustomUIElementResponse"
          [] k = "connection_rejected" -> "ConnectionRejectedMessage"]

\* A handler is the callable stored in the table.  fn names the function;
\* wrap tells whether it is the type_safe_handler closure App.on builds
\* around fn, and cls is the message class that closure checks.  A function
\* registered with the dispatcher directly has wrap = FALSE.
Handler(fn) == [fn |-> fn, cls |-> NoClass, wrap |-> FALSE]

RECURSIVE SumLen(_, _)
SumLen(tab, S) ==
    IF S = {} THEN 0
    ELSE LET k == CHOOSE x \in S : TRUE
         IN Len(tab[k]) + SumLen(tab, S \ {k})

TotalHandlers(tab) == SumLen(tab, DOMAIN tab)

\* A register that puts the handler in front of the list.
RegisterInFront(tab, k, h) ==
    IF k \in DOMAIN tab
    THEN [tab EXCEPT ![k] = <<h>> \o @]
    ELSE [x \in DOMAIN tab \cup {k} |-> IF x = k THEN <<h>> ELSE tab[x]]

\* register: create the list when the key is missing, then append.
RegisterIn(tab, k, h) ==
    IF k \in DOMAIN tab
    THEN [tab EXCEPT ![k] = Append(@, h)]
    ELSE [x \in DOMAIN tab \cup {k} |-> IF x = k THEN <<h>> ELSE tab[x]]

\* A removal that drops the last element equal to h.
RemoveLast(s, h) ==
    LET i == CHOOSE j \in 1..Len(s) :
                s[j] = h /\ \A m \in (j+1)..Len(s) : s[m] # h
    IN SubSeq(s, 1, i - 1) \o SubSeq(s, i + 1, Len(s))

\* list.remove(h): drops the first element equal to h.
RemoveFirst(s, h) ==
    LET i == CHOOSE j \in 1..Len(s) : s[j] = h /\ \A m \in 1..(j-1) : s[m] # h
    IN SubSeq(s, 1, i - 1) \o SubSeq(s, i + 1, Len(s))

InSeq(s, h) == \E i \in 1..Len(s) : s[i] = h

\* unregister: the key stays in the table even when its list becomes empty.
UnregisterIn(tab, k, h) ==
    IF k \in DOMAIN tab /\ InSeq(tab[k], h)
    THEN [tab EXCEPT ![k] = RemoveFirst(@, h)]
    ELSE tab

\* The value unregister returns: False when the key is missing (line 57) or
\* list.remove raises ValueError (line 63), True otherwise (line 61).
UnregisterReturn(tab, k, h) == k \in DOMAIN tab /\ InSeq(tab[k], h)

\* The conversion without the validation of the model class.
ConvertMessageUnchecked(event_type, message) ==
    IF /\ message.form = "dict"
       /\ event_type \in DOMAIN MESSAGE_TYPE_MAPPING
    THEN Model(MESSAGE_TYPE_MAPPING[event_type], message.type, message.content)
    ELSE message

\* Lines 77-88 of dispatch: a dict is converted with the model class mapped
\* to event_type; when there is no class or the conversion raises, the
\* original dict is kept.
ConvertMessage(event_type, message) ==
    IF /\ message.form = "dict"
       /\ event_type \in DOMAIN MESSAGE_TYPE_MAPPING
       /\ Validates(MESSAGE_TYPE_MAPPING[event_type], message)
    THEN Model(MESSAGE_TYPE_MAPPING[event_type], message.type, message.content)
    ELSE message

\* The conversion was tried and raised.
ConversionFailed(event_type, message) ==
    /\ message.form = "dict"
    /\ event_type \in DOMAIN MESSAGE_TYPE_MAPPING
    /\ ~Validates(MESSAGE_TYPE_MAPPING[event_type], message)

\* A wrapper that calls the function whatever the message is.
NoTypeCheck(h, message) == TRUE

\* type_safe_handler (app.py 202-208): the wrapped function is called only
\* when there is no message class or the message is an instance of it.
PassesTypeCheck(h, message) ==
    ~h.wrap \/ h.cls = NoClass \/ IsInstance(message, h.cls)

\* Line 90: the for loop runs over a copy of the list, not over the list.
IterListLive == handlers[dtype]

IterList == snapshot

\* Lines 97-100: an exception of a handler is caught and logged, and the
\* loop goes on with the next handler.
HandlerErrorPropagates == [dpc |-> "returned", escaped |-> TRUE]

HandlerErrorCaught == [dpc |-> "iterating", escaped |-> FALSE]

\* A lookup self._handlers[event_type] without the test of line 72.
MissingKindKeyError == TRUE

\* Lines 72-74: a kind that is not in the table makes dispatch return; no
\* exception leaves it.
MissingKindRaises == FALSE

\* dispatch(event_type, message), up to the start of the for loop.
DispatchBegin(event_type, message) ==
    /\ dtype' = event_type
    /\ rawmsg' = message
    /\ invoked' = <<>>
    /\ called' = <<>>
    /\ escaped' = (event_type \notin DOMAIN handlers /\ MissingKindRaises)
    /\ idx' = 1
    /\ IF event_type \notin DOMAIN handlers
       THEN /\ dpc' = "returned"
            /\ dmsg' = message
            /\ atCall' = <<>>
            /\ snapshot' = <<>>
       ELSE /\ dpc' = "iterating"
            /\ dmsg' = ConvertMessage(event_type, message)
            /\ atCall' = handlers[event_type]
            /\ snapshot' = handlers[event_type]
    /\ UNCHANGED handlers

\* The for loop has a next handler.
AtHandler == dpc = "iterating" /\ idx <= Len(IterList)

\* One iteration of the for loop: the handler is invoked with model_message.
Invoke(h, ranBody) ==
    /\ invoked' = Append(invoked, [h |-> h, msg |-> dmsg])
    /\ called' = IF ranBody THEN Append(called, [fn |-> h.fn, msg |-> dmsg])
                 ELSE called
    /\ idx' = idx + 1
    /\ UNCHANGED <<dtype, rawmsg, dmsg, atCall, snapshot>>

\* The wrapper of App.on finds a message of the wrong type: it logs an
\* error and returns None without calling the function.
InvokeSkipped ==
    /\ AtHandler
    /\ LET h == IterList[idx] IN
        /\ ~PassesTypeCheck(h, dmsg)
        /\ Invoke(h, FALSE)
    /\ UNCHANGED <<handlers, dpc, escaped, runVars, running, rejected, sendVars, bkVars, startVars, frameVars, aliasVars, outVars, joinVars>>

\* A handler that returns normally and changes nothing.
InvokeReturns ==
    /\ AtHandler
    /\ LET h == IterList[idx] IN
        /\ h.fn \in {"h_ok", "cb_log"}
        /\ PassesTypeCheck(h, dmsg)
        /\ Invoke(h, TRUE)
    /\ UNCHANGED <<handlers, dpc, escaped, runVars, running, rejected, sendVars, bkVars, startVars, frameVars, aliasVars, outVars, joinVars>>

\* The coroutine functions (async def) of the application.
AsyncFns == {"cb_async", "h_async"}

\* inspect.iscoroutinefunction(handler): true of an async def registered as
\* it is; the type_safe_handler that App.on registers is a plain def, whatever
\* the function it wraps.
IsCoroutineFunction(h) == ~h.wrap /\ h.fn \in AsyncFns

\* await handler(model_message): the handler has started and is suspended.
InvokeAwaits ==
    /\ AtHandler
    /\ LET h == IterList[idx] IN
        /\ h.fn \in AsyncFns
        /\ IsCoroutineFunction(h)
        /\ PassesTypeCheck(h, dmsg)
    /\ dpc' = "suspended"
    /\ UNCHANGED <<handlers, dtype, rawmsg, dmsg, atCall, snapshot, idx,
                   invoked, called, escaped>>
    /\ UNCHANGED <<runVars, running, rejected, sendVars, bkVars, startVars, frameVars, aliasVars, outVars, joinVars>>

\* The awaited handler runs to its end and the for loop goes on.
InvokeResumes ==
    /\ dpc = "suspended"
    /\ Invoke(IterList[idx], TRUE)
    /\ dpc' = "iterating"
    /\ UNCHANGED <<handlers, escaped, runVars, running, rejected, sendVars,
                   bkVars, startVars, frameVars, aliasVars, outVars, joinVars>>

\* handler(model_message) on a handler that is not a coroutine function but
\* ends in the call of an async def: the call gives a coroutine object that
\* nothing awaits, and the body of the function does not run.
InvokeNotAwaited ==
    /\ AtHandler
    /\ LET h == IterList[idx] IN
        /\ h.fn \in AsyncFns
        /\ ~IsCoroutineFunction(h)
        /\ PassesTypeCheck(h, dmsg)
        /\ Invoke(h, FALSE)
    /\ UNCHANGED <<handlers, dpc, escaped, runVars, running, rejected,
                   sendVars, bkVars, startVars, frameVars, aliasVars, outVars, joinVars>>

\* A handler whose exception ends the session: the running flag is cleared.
InvokeRaisesEndsSession ==
    /\ AtHandler
    /\ LET h == IterList[idx] IN
        /\ h.fn = "h_raise"
        /\ PassesTypeCheck(h, dmsg)
        /\ Invoke(h, TRUE)
    /\ dpc' = HandlerErrorPropagates.dpc
    /\ escaped' = HandlerErrorPropagates.escaped
    /\ running' = FALSE
    /\ UNCHANGED <<handlers, runVars, rejected, sendVars, bkVars, startVars,
                   frameVars, aliasVars, outVars, joinVars>>

\* A handler that raises an Exception.
InvokeRaises ==
    /\ AtHandler
    /\ LET h == IterList[idx] IN
        /\ h.fn = "h_raise"
        /\ PassesTypeCheck(h, dmsg)
        /\ Invoke(h, TRUE)
    /\ dpc' = HandlerErrorCaught.dpc
    /\ escaped' = HandlerErrorCaught.escaped
    /\ UNCHANGED <<handlers, runVars, running, rejected, sendVars, bkVars, startVars, frameVars, aliasVars, outVars, joinVars>>

\* A handler that registers a handler for the kind being dispatched.
InvokeRegisters ==
    /\ AtHandler
    /\ LET h == IterList[idx] IN
        /\ h.fn = "h_edit"
        /\ PassesTypeCheck(h, dmsg)
        /\ TotalHandlers(handlers) < MaxHandlers
        /\ Invoke(h, TRUE)
        /\ handlers' = RegisterIn(handlers, dtype, Handler("h_ok"))
    /\ UNCHANGED <<dpc, escaped, runVars, running, rejected, sendVars, bkVars, startVars, frameVars, aliasVars, outVars, joinVars>>

\* A handler that unregisters a handler of the kind being dispatched.
InvokeUnregisters ==
    /\ AtHandler
    /\ LET h == IterList[idx] IN
        /\ h.fn = "h_edit"
        /\ PassesTypeCheck(h, dmsg)
        /\ Invoke(h, TRUE)
        /\ \E i \in 1..Len(handlers[dtype]) :
              handlers' = UnregisterIn(handlers, dtype, handlers[dtype][i])
    /\ UNCHANGED <<dpc, escaped, runVars, running, rejected, sendVars, bkVars, startVars, frameVars, aliasVars, outVars, joinVars>>

\* The for loop is over: dispatch returns.
DispatchReturn ==
    /\ dpc = "iterating"
    /\ idx > Len(IterList)
    /\ dpc' = "returned"
    /\ UNCHANGED <<handlers, dtype, rawmsg, dmsg, atCall, snapshot, idx,
                   invoked, called, escaped>>
    /\ UNCHANGED <<runVars, running, rejected, sendVars, bkVars, startVars, frameVars, aliasVars, outVars, joinVars>>

----------------------------------------------------------------------------
(* The dispatcher used directly *)

DirectFns == {"h_ok", "h_raise", "h_edit"}

DirectKinds == {"transcript", "join", "mcq_question"}

\* Payloads given to dispatch: a dict whose type key is the kind or the
\* Literal of the kind's model, with a content of the kind's schema or of
\* none; or an object of the kind's model class.
DirectMessages(k) ==
    IF k \in DOMAIN MESSAGE_TYPE_MAPPING
    THEN LET cls == MESSAGE_TYPE_MAPPING[k] IN
            {Dict(t, c) : t \in {k, TypeLiteral(cls)},
                          c \in {ContentSchema(cls), "other"}}
            \cup {Model(cls, TypeLiteral(cls), ContentSchema(cls))}
    ELSE {Dict(k, "other")}

Register(k, h) ==
    /\ dpc = "idle"
    /\ TotalHandlers(handlers) < MaxHandlers
    /\ handlers' = RegisterIn(handlers, k, h)
    /\ UNCHANGED <<dpc, dtype, rawmsg, dmsg, atCall, snapshot, idx, invoked,
                   called, escaped>>
    /\ UNCHANGED <<runVars, running, rejected, sendVars, bkVars, startVars, frameVars, aliasVars, outVars, joinVars>>

Unregister(k, h) ==
    /\ dpc = "idle"
    /\ k \in DOMAIN handlers
    /\ InSeq(handlers[k], h)
    /\ handlers' = UnregisterIn(handlers, k, h)
    /\ UNCHANGED <<dpc, dtype, rawmsg, dmsg, atCall, snapshot, idx, invoked,
                   called, escaped>>
    /\ UNCHANGED <<runVars, running, rejected, sendVars, bkVars, startVars, frameVars, aliasVars, outVars, joinVars>>

DirectDispatch(k, m) ==
    /\ dpc = "idle"
    /\ DispatchBegin(k, m)
    /\ UNCHANGED <<runVars, running, rejected, sendVars, bkVars, startVars, frameVars, aliasVars, outVars, joinVars>>

NoMessage == Dict("absent", "other")

\* The frame of the dispatch call is gone once its caller goes on.
DispatchFrameDropped ==
    /\ dpc' = "idle"
    /\ dtype' = "none"
    /\ rawmsg' = NoMessage
    /\ dmsg' = NoMessage
    /\ atCall' = <<>>
    /\ snapshot' = <<>>
    /\ idx' = 1
    /\ invoked' = <<>>
    /\ called' = <<>>
    /\ escaped' = FALSE

\* The caller of dispatch goes on.
DispatchDone ==
    /\ dpc = "returned"
    /\ DispatchFrameDropped
    /\ UNCHANGED handlers
    /\ UNCHANGED <<runVars, running, rejected, sendVars, bkVars, startVars, frameVars, aliasVars, outVars, joinVars>>

InitSession ==
    /\ handlers = <<>>
    /\ orphaned = FALSE
    /\ dpc = "idle"
    /\ dtype = "none"
    /\ rawmsg = NoMessage
    /\ dmsg = NoMessage
    /\ atCall = <<>>
    /\ snapshot = <<>>
    /\ idx = 1
    /\ invoked = <<>>
    /\ called = <<>>
    /\ escaped = FALSE
    /\ pc = "setup"
    /\ running = FALSE
    /\ connected = FALSE
    /\ auto_reconnect = TRUE
    /\ reconnect_delay = 0
    /\ waitFor = 0
    /\ fails = 0
    /\ rejected = FALSE
    /\ ready = <<>>
    /\ outcome = [i \in 1..MaxSends |-> "none"]
    /\ nextId = 1
    /\ origin = [i \in 1..MaxSends |-> "none"]
    /\ authOutcome = "unchecked"
    /\ stopAsked = FALSE
    /\ lastFrame = "none"
    /\ logged = 0
    /\ resolved = [name |-> "", kind |-> ""]
    /\ trip = [status |-> "none", id |-> "", question |-> "", options |-> <<>>,
               withIds |-> FALSE, out_id |-> "", out_question |-> "",
               out_options |-> <<>>]
    /\ built = [fn |-> "none", connected |-> FALSE, outcome |-> "none",
                fields |-> {}]

\* The two functions that keep a reconnect loop of their own.
Loops == {"connect_and_listen", "await_meeting"}

\* No reconnect loop of agent_connector.py or meeting_discovery.py runs.
NoReconnectLoop ==
    /\ bpc = [w \in Loops |-> "done"]
    /\ bdelay = [w \in Loops |-> 1]
    /\ brunning = FALSE
    /\ btimeout = FALSE
    /\ bslept = [w \in Loops |-> <<>>]
    /\ bprev = [w \in Loops |-> 1]
    /\ bmsg = [w \in Loops |-> "none"]
    /\ bended = [w \in Loops |-> FALSE]
    /\ bresult = "pending"
    /\ active_agents = 0

Init == InitSession /\ NoReconnectLoop

NextDispatch ==
    \/ \E k \in DirectKinds, f \in DirectFns : Register(k, Handler(f))
    \/ \E k \in DirectKinds, f \in DirectFns : Unregister(k, Handler(f))
    \/ \E k \in DirectKinds : \E m \in DirectMessages(k) : DirectDispatch(k, m)
    \/ InvokeReturns
    \/ InvokeRaises
    \/ InvokeRegisters
    \/ InvokeUnregisters
    \/ DispatchReturn
    \/ DispatchDone

SpecDispatch == Init /\ [][NextDispatch]_vars

----------------------------------------------------------------------------
(* App (app.py): registration of application callbacks *)

\* Event type constants (events/__init__.py)
TRANSCRIPT_EVENT == "transcript"
JOIN_EVENT == "on_join"
EXIT_EVENT == "on_exit"
CUSTOM_UI_EVENT == "custom_ui_element_response"
INVOKE_EVENT == "invoke"
CONNECTION_REJECTED_EVENT == "connection_rejected"
MCQ_QUESTION_EVENT == "mcq_question"
PLACES_AUTOCOMPLETE_EVENT == "places_autocomplete"
UPLOAD_FILE_EVENT == "upload_file"
TEXTINPUT_EVENT == "textinput"
CONSENT_FORM_EVENT == "consent_form"
CALENDLY_EVENT == "calendly"

\* App._event_aliases
event_aliases ==
    [n \in {"join", "exit", "transcript", "custom_ui_response", "custom_ui",
            "invoke", "connection_rejected", "mcq_question",
            "places_autocomplete", "upload_file", "textinput",
            "consent_form", "calendly"} |->
        CASE n = "join"                -> JOIN_EVENT
          [] n = "exit"                -> EXIT_EVENT
          [] n = "transcript"          -> TRANSCRIPT_EVENT
          [] n = "custom_ui_response"  -> CUSTOM_UI_EVENT
          [] n = "custom_ui"           -> CUSTOM_UI_EVENT
          [] n = "invoke"              -> INVOKE_EVENT
          [] n = "connection_rejected" -> CONNECTION_REJECTED_EVENT
          [] n = "mcq_question"        -> MCQ_QUESTION_EVENT
          [] n = "places_autocomplete" -> PLACES_AUTOCOMPLETE_EVENT
          [] n = "upload_file"         -> UPLOAD_FILE_EVENT
          [] n = "textinput"           -> TEXTINPUT_EVENT
          [] n = "consent_form"        -> CONSENT_FORM_EVENT
          [] n = "calendly"            -> CALENDLY_EVENT]

\* A lookup that ignores the alias table.
ResolveNoAlias(event_type) == event_type

\* self._event_aliases.get(event_type, event_type)
Resolve(event_type) ==
    IF event_type \in DOMAIN event_aliases THEN event_aliases[event_type]
    ELSE event_type

\* App._message_type_mapping
message_type_mapping ==
    [k \in {JOIN_EVENT, EXIT_EVENT, TRANSCRIPT_EVENT, CUSTOM_UI_EVENT,
            INVOKE_EVENT, CONNECTION_REJECTED_EVENT} |->
        CASE k = JOIN_EVENT                -> "JoinMessage"
          [] k = EXIT_EVENT                -> "ExitMessage"
          [] k = TRANSCRIPT_EVENT          -> "TranscriptMessage"
          [] k = CUSTOM_UI_EVENT           -> "CustomUIElementResponse"
          [] k = INVOKE_EVENT              -> "TranscriptMessage"
          [] k = CONNECTION_REJECTED_EVENT -> "ConnectionRejectedMessage"]

\* self._message_type_mapping.get(resolved_event_type)
MessageClassOf(kind) ==
    IF kind \in DOMAIN message_type_mapping THEN message_type_mapping[kind]
    ELSE NoClass

\* The closure type_safe_handler that App.on registers for func.
TypeSafeHandler(fn, event_type) ==
    [fn |-> fn, cls |-> MessageClassOf(Resolve(event_type)), wrap |-> TRUE]

\* app.on(event_type)(func), before run is called
On(event_type, fn) ==
    /\ pc = "setup"
    /\ TotalHandlers(handlers) < MaxHandlers
    /\ handlers' = RegisterIn(handlers, Resolve(event_type),
                              TypeSafeHandler(fn, event_type))
    /\ UNCHANGED <<dpc, dtype, rawmsg, dmsg, atCall, snapshot, idx, invoked,
                   called, escaped>>
    /\ UNCHANGED <<runVars, running, rejected, sendVars, bkVars, startVars, frameVars, aliasVars, outVars, joinVars>>

\* _register_default_handlers: the default handler is registered, through
\* on_connection_rejected, when the table has no connection_rejected key.
DefaultHandler ==
    TypeSafeHandler("default_connection_rejected_handler", "connection_rejected")

WithDefaultHandlers(tab) ==
    IF CONNECTION_REJECTED_EVENT \notin DOMAIN tab
    THEN RegisterIn(tab, CONNECTION_REJECTED_EVENT, DefaultHandler)
    ELSE tab

----------------------------------------------------------------------------
(* The event loop and MessageSender (messaging.py) *)

\* The loop is inside a run_until_complete whose coroutine may be suspended.
LoopRunning ==
    \/ pc \in {"connect", "receive", "disconnect"}
    \/ pc = "dispatch" /\ dpc \in {"returned", "suspended"}

\* Entering run_until_complete: what is already scheduled runs in its first
\* iteration.
MarkOld(q) == [i \in 1..Len(q) |-> [q[i] EXCEPT !.old = TRUE]]

\* run_until_complete returns after the iteration that follows the end of
\* its coroutine: the tasks created by the coroutine and everything
\* scheduled before the call have had their first step.
LoopDrained ==
    \A i \in 1..Len(ready) : ready[i].origin # "task" /\ ~ready[i].old

\* A scheduled entry: the first step of a task that runs _send_model, or the
\* callback of run_coroutine_threadsafe that creates such a task.
ReadyEntry(id, org, hop, old) ==
    [id |-> id, origin |-> org, hop |-> hop, old |-> old]

\* asyncio.create_task(self._send_model(message)): called by a handler,
\* inside the running loop.  The message is one that was built; what the
\* constructor calls of the send methods do is in SendCall.
CreateTask ==
    /\ nextId <= MaxSends
    /\ ready' = Append(ready, ReadyEntry(nextId, "task", "step", FALSE))
    /\ outcome' = [outcome EXCEPT ![nextId] = "scheduled"]
    /\ origin' = [origin EXCEPT ![nextId] = "task"]
    /\ nextId' = nextId + 1

\* _send_model on a connection that is not connected: a warning is logged
\* and the coroutine returns.
SendWhenDisconnected == "dropped"

\* _send_model (lines 55-65), run by the loop.
SendModel(id, sendOk) ==
    IF ~connected THEN SendWhenDisconnected
    ELSE IF sendOk THEN "sent"
    ELSE "send_failed"

\* The last entry of the ready queue.
NextReadyLast == Len(ready)

\* The loop runs its ready queue first in, first out.
NextReady == 1

\* A queue in which the step of a send coroutine stays scheduled after it ran:
\* a sender that transmits again.
RequeueStep(q, i) ==
    IF q[i].hop = "step" THEN q
    ELSE [k \in 1..(Len(q) - 1) |-> IF k < i THEN q[k] ELSE q[k + 1]]

\* The ready queue without its entry i.
WithoutEntry(q, i) == [k \in 1..(Len(q) - 1) |-> IF k < i THEN q[k] ELSE q[k + 1]]

\* A send coroutine without the except clause of lines 64-65: the exception
\* of connection.send leaves the task and ends the session.
LoopRunsSendUncaught ==
    /\ LoopRunning
    /\ ready # <<>>
    /\ ready[NextReady].hop = "step"
    /\ \E sendOk \in BOOLEAN :
          /\ outcome' = [outcome EXCEPT ![ready[NextReady].id] =
                            SendModel(ready[NextReady].id, sendOk)]
          /\ running' = (running /\ (~connected \/ sendOk))
    /\ ready' = WithoutEntry(ready, NextReady)
    /\ UNCHANGED <<dispVars, runVars, rejected, nextId, origin, bkVars, startVars, frameVars, aliasVars, outVars, joinVars>>

\* The loop runs the next scheduled step of a send coroutine: _send_model up
\* to its call of connection.send.
LoopRunsSend ==
    /\ LoopRunning
    /\ ready # <<>>
    /\ ready[NextReady].hop = "step"
    /\ \E sendOk \in BOOLEAN :
          outcome' = [outcome EXCEPT ![ready[NextReady].id] =
                         SendModel(ready[NextReady].id, sendOk)]
    /\ ready' = WithoutEntry(ready, NextReady)
    /\ UNCHANGED <<dispVars, runVars, running, rejected, nextId, origin, bkVars, startVars, frameVars, aliasVars, outVars, joinVars>>

\* The loop runs the callback of run_coroutine_threadsafe: ensure_future
\* creates the task, whose first step joins the end of the ready queue.
LoopRunsCallback ==
    /\ LoopRunning
    /\ ready # <<>>
    /\ ready[NextReady].hop = "callback"
    /\ ready' = Append(WithoutEntry(ready, NextReady),
                       [ready[NextReady] EXCEPT !.hop = "step"])
    /\ UNCHANGED <<dispVars, runVars, running, rejected, outcome, nextId,
                   origin, bkVars, startVars, frameVars, aliasVars, outVars, joinVars>>

\* send_generated_text(..., loop=loop) from another thread while run is
\* active: asyncio.run_coroutine_threadsafe schedules the coroutine on the
\* loop and the returned future is dropped.
ThreadSend ==
    /\ pc \notin {"setup", "done"}
    /\ nextId <= MaxSends
    /\ ready' = Append(ready, ReadyEntry(nextId, "threadsafe", "callback", FALSE))
    /\ outcome' = [outcome EXCEPT ![nextId] = "scheduled"]
    /\ origin' = [origin EXCEPT ![nextId] = "threadsafe"]
    /\ nextId' = nextId + 1
    /\ UNCHANGED <<dispVars, runVars, running, rejected, bkVars, startVars, frameVars, aliasVars, outVars, joinVars>>

----------------------------------------------------------------------------
(* Application callbacks with effects on the session *)

\* A callback that calls app.stop(), or the default connection_rejected
\* handler: the running flag is cleared.
InvokeStops ==
    /\ AtHandler
    /\ LET h == IterList[idx] IN
        /\ h.fn \in {"cb_stop", "default_connection_rejected_handler"}
        /\ PassesTypeCheck(h, dmsg)
        /\ Invoke(h, TRUE)
    /\ running' = FALSE
    /\ stopAsked' = TRUE
    /\ rejected' = (rejected \/ dtype = CONNECTION_REJECTED_EVENT)
    /\ UNCHANGED <<handlers, dpc, escaped, runVars, sendVars, bkVars, authOutcome, frameVars, aliasVars, outVars, joinVars>>

\* App.stop called from another context (a thread, a signal handler) while
\* run is active: the flag is cleared if it was set.
ExternalStop ==
    /\ pc \notin {"setup", "done"}
    /\ running
    /\ running' = FALSE
    /\ stopAsked' = TRUE
    /\ UNCHANGED <<dispVars, runVars, rejected, sendVars, bkVars, authOutcome, frameVars, aliasVars, outVars, joinVars>>

\* A callback that calls app.send_generated_text(text).
InvokeSends ==
    /\ AtHandler
    /\ LET h == IterList[idx] IN
        /\ h.fn = "cb_send"
        /\ PassesTypeCheck(h, dmsg)
        /\ Invoke(h, TRUE)
    /\ CreateTask
    /\ UNCHANGED <<handlers, dpc, escaped, runVars, running, rejected, bkVars, startVars, frameVars, aliasVars, outVars, joinVars>>

\* join_meeting (lines 165-170): self.connection becomes a new
\* WebSocketConnection, which is not connected.  The connection it replaces
\* is not disconnected: when it was connected its socket stays open.
JoinMeeting ==
    /\ orphaned' = (orphaned \/ connected)
    /\ connected' = FALSE

\* A callback that calls app.join_meeting(meeting_id).
InvokeJoins ==
    /\ AtHandler
    /\ LET h == IterList[idx] IN
        /\ h.fn = "cb_join"
        /\ PassesTypeCheck(h, dmsg)
        /\ Invoke(h, TRUE)
    /\ JoinMeeting
    /\ UNCHANGED <<handlers, dpc, escaped, pc, auto_reconnect, reconnect_delay,
                   waitFor, fails, running, rejected, sendVars, bkVars,
                   startVars, frameVars, aliasVars, outVars>>

----------------------------------------------------------------------------
(* App.run (app.py 260-374) *)

DefaultReconnectDelay == 5

\* The delay 1, 2, 4, 8, 16, 32, 60, 60, ... of the k-th failure in a row.
Backoff(k) == IF k >= 7 THEN 60 ELSE 2 ^ (k - 1)

\* A delay that doubles with every failure since the last connect.
SleepDelayBackoff == Backoff(fails + 1)

\* Seconds slept before a reconnect (lines 354 and 363).
SleepDelay == reconnect_delay

\* Condition of the inner while loop (line 335).
InnerLoopCondNoFlag == connected

InnerLoopCond == connected /\ running

\* Frames the server sends: a type and a content that has the schema of
\* the type's record, or no schema at all.  The type is one of the event
\* type constants or "join", a name of the alias table that is not one.
FrameTypes ==
    {TRANSCRIPT_EVENT, JOIN_EVENT, EXIT_EVENT, INVOKE_EVENT, CUSTOM_UI_EVENT,
     CONNECTION_REJECTED_EVENT, MCQ_QUESTION_EVENT, "join"}

KindSchema(t) == ContentSchema(MessageClassOf(t))

FrameContents(t) ==
    IF t \in DOMAIN message_type_mapping THEN {KindSchema(t), "other"}
    ELSE {"other"}

\* What authenticate_api_key can give when run is called: no key is set and
\* the check is skipped, or the check returns True, returns False or raises.
AuthOutcomes == {"no_key", "ok", "false", "raises"}

\* A credential check whose failure is not looked at.
AuthFatalIgnored(a) == FALSE

\* Lines 283-293: a check that returns False or raises ends run with
\* AuthenticationError.
AuthFatal(a) == a \in {"false", "raises"}

\* run(auto_reconnect, reconnect_delay) up to the outer while loop: after the
\* credential check the default handlers are registered and the running flag
\* is set.
RunStart(auto, delay, a) ==
    /\ pc = "setup"
    /\ authOutcome' = a
    /\ IF AuthFatal(a)
       THEN /\ pc' = "raised"
            /\ UNCHANGED <<handlers, auto_reconnect, reconnect_delay, running>>
       ELSE /\ handlers' = WithDefaultHandlers(handlers)
            /\ auto_reconnect' = auto
            /\ reconnect_delay' = delay
            /\ running' = TRUE
            /\ pc' = "outer"
    /\ UNCHANGED <<dpc, dtype, rawmsg, dmsg, atCall, snapshot, idx, invoked,
                   called, escaped>>
    /\ UNCHANGED <<connected, waitFor, fails, rejected, sendVars, bkVars,
                   stopAsked, frameVars, aliasVars, outVars, joinVars>>

\* run without a connection (join_meeting was not called): ConnectionError
\* is raised inside the try block (lines 322-323) and leaves through finally.
RunNoConnection(a) ==
    /\ pc = "setup"
    /\ ~AuthFatal(a)
    /\ authOutcome' = a
    /\ handlers' = WithDefaultHandlers(handlers)
    /\ pc' = "finally"
    /\ UNCHANGED <<dpc, dtype, rawmsg, dmsg, atCall, snapshot, idx, invoked,
                   called, escaped>>
    /\ UNCHANGED <<connected, auto_reconnect, reconnect_delay, waitFor, fails,
                   running, rejected, sendVars, bkVars, stopAsked, frameVars, aliasVars, outVars, joinVars>>

\* KeyboardInterrupt while run is inside the try block: the except clause of
\* line 367 logs it and the finally block runs.
Interrupt ==
    /\ pc \in {"connect", "receive", "dispatch", "sleep"}
    /\ pc' = "finally"
    /\ stopAsked' = TRUE
    /\ DispatchFrameDropped
    /\ UNCHANGED <<handlers, connected, auto_reconnect, reconnect_delay,
                   waitFor, fails, running, rejected, sendVars, bkVars,
                   authOutcome, frameVars, aliasVars, outVars, joinVars>>

\* while self.running (line 329) and the test of line 331
OuterLoop ==
    /\ pc = "outer"
    /\ IF ~running THEN pc' = "finally" /\ ready' = ready
       ELSE IF ~connected THEN pc' = "connect" /\ ready' = MarkOld(ready)
       ELSE pc' = "inner" /\ ready' = ready
    /\ UNCHANGED <<dispVars, connected, auto_reconnect, reconnect_delay,
                   waitFor, fails, running, rejected, outcome, nextId, origin, bkVars, startVars, frameVars, aliasVars, outVars, joinVars>>

\* A run loop that gives up at the first failure.
ReconnectNever == FALSE

\* A run loop that retries whatever auto_reconnect says.
ReconnectAlways == TRUE

\* if auto_reconnect (lines 352 and 361)
ReconnectWanted == auto_reconnect

\* The except clause of the outer try (lines 359-365), and the lost
\* connection (lines 351-357): sleep and retry, or leave the loop.
Retry ==
    /\ fails < MaxFails
    /\ fails' = fails + 1
    /\ IF ReconnectWanted
       THEN pc' = "sleep" /\ waitFor' = SleepDelay
       ELSE pc' = "finally" /\ waitFor' = waitFor

\* connection.connect() succeeds.
ConnectOk ==
    /\ pc = "connect"
    /\ LoopDrained
    /\ connected' = TRUE
    /\ fails' = 0
    /\ pc' = "inner"
    /\ UNCHANGED <<dispVars, auto_reconnect, reconnect_delay, waitFor,
                   running, rejected, sendVars, bkVars, startVars, frameVars, aliasVars, outVars, joinVars>>

\* connection.connect() raises.
ConnectFails ==
    /\ pc = "connect"
    /\ LoopDrained
    /\ Retry
    /\ UNCHANGED <<dispVars, connected, auto_reconnect, reconnect_delay,
                   running, rejected, sendVars, bkVars, startVars, frameVars, aliasVars, outVars, joinVars>>

\* The test of the inner while loop (line 335).
InnerLoop ==
    /\ pc = "inner"
    /\ IF InnerLoopCond THEN pc' = "receive" /\ ready' = MarkOld(ready)
       ELSE pc' = "after_inner" /\ ready' = ready
    /\ lastFrame' = "none"
    /\ logged' = 0
    /\ UNCHANGED <<dispVars, connected, auto_reconnect, reconnect_delay,
                   waitFor, fails, running, rejected, outcome, nextId, origin,
                   bkVars, startVars, aliasVars, outVars, joinVars>>

\* connection.receive() returns a frame with a type: it is dispatched.
ReceiveFrame(type, content) ==
    /\ pc = "receive"
    /\ LoopDrained
    /\ dpc = "idle"
    /\ DispatchBegin(type, Dict(type, content))
    /\ pc' = "dispatch"
    /\ ready' = MarkOld(ready)
    /\ UNCHANGED <<connected, auto_reconnect, reconnect_delay, waitFor, fails,
                   running, rejected, outcome, nextId, origin, bkVars, startVars, frameVars, aliasVars, outVars, joinVars>>

\* connection.receive() returns a frame that has no "type" key: the test of
\* line 338 fails and the loop goes on without a word.
ReceiveNoType ==
    /\ pc = "receive"
    /\ LoopDrained
    /\ pc' = "inner"
    /\ lastFrame' = "no_type"
    /\ logged' = 0
    /\ UNCHANGED <<dispVars, connected, auto_reconnect, reconnect_delay,
                   waitFor, fails, running, rejected, sendVars, bkVars,
                   startVars, aliasVars, outVars, joinVars>>

\* connection.receive() fails on data that is not valid JSON: the except
\* clause of line 340 logs one error while running, or breaks.
ReceiveMalformed ==
    /\ pc = "receive"
    /\ LoopDrained
    /\ lastFrame' = "malformed"
    /\ IF running THEN pc' = "inner" /\ logged' = 1
       ELSE pc' = "after_inner" /\ logged' = 0
    /\ UNCHANGED <<dispVars, connected, auto_reconnect, reconnect_delay,
                   waitFor, fails, running, rejected, sendVars, bkVars,
                   startVars, aliasVars, outVars, joinVars>>

\* connection.receive() returns nothing.
ReceiveNothing ==
    /\ pc = "receive"
    /\ LoopDrained
    /\ pc' = "inner"
    /\ UNCHANGED <<dispVars, connected, auto_reconnect, reconnect_delay,
                   waitFor, fails, running, rejected, sendVars, bkVars, startVars, frameVars, aliasVars, outVars, joinVars>>

\* The socket is closed: connection.receive() raises or returns nothing
\* and the connection is no longer connected (lines 340-345).
ReceiveClosed ==
    /\ pc = "receive"
    /\ LoopDrained
    /\ connected' = FALSE
    /\ pc' = IF running THEN "inner" ELSE "after_inner"
    /\ UNCHANGED <<dispVars, auto_reconnect, reconnect_delay, waitFor, fails,
                   running, rejected, sendVars, bkVars, startVars, frameVars, aliasVars, outVars, joinVars>>

\* A run loop that goes on while the dispatch coroutine is still at work.
DispatchNotAwaited == dpc # "idle"

\* loop.run_until_complete(dispatch(...)) returns when dispatch has returned.
DispatchAwaited == dpc = "returned"

\* run_until_complete(dispatch(...)) returns (line 339); an exception that
\* left dispatch is handled by lines 340-345.
RunAfterDispatch ==
    /\ pc = "dispatch"
    /\ DispatchAwaited
    /\ LoopDrained
    /\ pc' = IF escaped /\ ~running THEN "after_inner" ELSE "inner"
    /\ DispatchFrameDropped
    /\ UNCHANGED <<handlers, connected, auto_reconnect, reconnect_delay,
                   waitFor, fails, running, rejected, sendVars, bkVars, startVars, frameVars, aliasVars, outVars, joinVars>>

\* Lines 347-357: after the inner loop.
AfterInner ==
    /\ pc = "after_inner"
    /\ IF ~running
       THEN pc' = "finally" /\ UNCHANGED <<waitFor, fails>>
       ELSE Retry
    /\ UNCHANGED <<dispVars, connected, auto_reconnect, reconnect_delay,
                   running, rejected, sendVars, bkVars, startVars, frameVars, aliasVars, outVars, joinVars>>

\* time.sleep(reconnect_delay) is over.
SleepDone ==
    /\ pc = "sleep"
    /\ waitFor' = 0
    /\ pc' = "outer"
    /\ UNCHANGED <<dispVars, connected, auto_reconnect, reconnect_delay,
                   fails, running, rejected, sendVars, bkVars, startVars, frameVars, aliasVars, outVars, joinVars>>

\* A stop that leaves the flag as it is.
AfterStopSkipped(r) == r

\* App.stop (lines 387-393): the flag is False afterwards.
AfterStop(r) == FALSE

\* finally (lines 369-374): stop(), then disconnect when connected.
Finally ==
    /\ pc = "finally"
    /\ running' = AfterStop(running)
    /\ IF connected THEN pc' = "disconnect" /\ ready' = MarkOld(ready)
       ELSE pc' = "done" /\ ready' = ready
    /\ UNCHANGED <<dispVars, connected, auto_reconnect, reconnect_delay,
                   waitFor, fails, rejected, outcome, nextId, origin, bkVars, startVars, frameVars, aliasVars, outVars, joinVars>>

\* run_until_complete(connection.disconnect()) returns.
Disconnected ==
    /\ pc = "disconnect"
    /\ LoopDrained
    /\ connected' = FALSE
    /\ pc' = "done"
    /\ UNCHANGED <<dispVars, auto_reconnect, reconnect_delay, waitFor, fails,
                   running, rejected, sendVars, bkVars, startVars, frameVars, aliasVars, outVars, joinVars>>

\* The steps of the run loop itself.
RunLoopStep ==
    \/ OuterLoop
    \/ ConnectOk
    \/ ConnectFails
    \/ InnerLoop
    \/ ReceiveNothing
    \/ ReceiveNoType
    \/ ReceiveMalformed
    \/ ReceiveClosed
    \/ DispatchReturn
    \/ RunAfterDispatch
    \/ AfterInner
    \/ SleepDone
    \/ Finally
    \/ Disconnected

\* Values given to run's reconnect_delay: the default and another one.
ReconnectDelays == {1, DefaultReconnectDelay}

OnNames ==
    {"join", "exit", "transcript", "invoke", "custom_ui_response",
     "connection_rejected", "mcq_question"}

AppFns == {"cb_log", "cb_stop"}

Next ==
    \/ \E n \in OnNames, f \in AppFns : On(n, f)
    \/ \E auto \in BOOLEAN, d \in ReconnectDelays : RunStart(auto, d, "no_key")
    \/ \E t \in FrameTypes : \E c \in FrameContents(t) : ReceiveFrame(t, c)
    \/ InvokeSkipped
    \/ InvokeReturns
    \/ InvokeStops
    \/ ExternalStop
    \/ RunLoopStep

Spec == Init /\ [][Next]_vars

----------------------------------------------------------------------------
(* The session from start to return, with interrupts and the steps that
   are bound to happen *)

LiveNames == {"transcript", "connection_rejected"}

LiveFrames == {TRANSCRIPT_EVENT, CONNECTION_REJECTED_EVENT}

\* The steps of run, of its handlers and of the calls it waits for: a
\* pending connect, receive, dispatch, sleep or disconnect ends.
RunProgress ==
    \/ \E t \in LiveFrames : \E c \in FrameContents(t) : ReceiveFrame(t, c)
    \/ InvokeSkipped
    \/ InvokeReturns
    \/ InvokeRaises
    \/ InvokeStops
    \/ RunLoopStep

NextLive ==
    \/ \E n \in LiveNames, f \in AppFns \cup {"h_raise"} : On(n, f)
    \/ \E auto \in BOOLEAN, a \in AuthOutcomes :
          RunStart(auto, DefaultReconnectDelay, a)
    \/ \E a \in AuthOutcomes : RunNoConnection(a)
    \/ ExternalStop
    \/ Interrupt
    \/ RunProgress

SpecLive == Init /\ [][NextLive]_vars /\ WF_vars(RunProgress)

----------------------------------------------------------------------------
(* The session with a callback that joins another meeting *)

JoinFns == {"cb_log", "cb_join"}

NextJoin ==
    \/ \E f \in JoinFns : On("transcript", f)
    \/ \E auto \in BOOLEAN : RunStart(auto, DefaultReconnectDelay, "no_key")
    \/ \E c \in FrameContents(TRANSCRIPT_EVENT) :
          ReceiveFrame(TRANSCRIPT_EVENT, c)
    \/ InvokeSkipped
    \/ InvokeReturns
    \/ InvokeJoins
    \/ ExternalStop
    \/ RunLoopStep

SpecJoin == Init /\ [][NextJoin]_vars

----------------------------------------------------------------------------
(* Alias resolution on its own *)

\* Names given to the lookup: the aliases, the kinds they stand for, and
\* names the table does not know.
AliasInputs ==
    DOMAIN event_aliases
        \cup {event_aliases[n] : n \in DOMAIN event_aliases}
        \cup {"", "JOIN", "on_transcript", "my_widget"}

\* Line 189 of App.on: resolved_event_type = aliases.get(event_type, event_type)
ResolveName(x) ==
    /\ pc = "setup"
    /\ resolved' = [name |-> x, kind |-> Resolve(x)]
    /\ UNCHANGED <<dispVars, runVars, running, rejected, sendVars, bkVars,
                   startVars, frameVars, outVars, joinVars>>

NextAlias ==
    \/ \E x \in AliasInputs : ResolveName(x)
    \/ \E x \in AliasInputs : On(x, "cb_log")

SpecAlias == Init /\ [][NextAlias]_vars

----------------------------------------------------------------------------
(* The session with synchronous and suspending handlers *)

AsyncNames == {"transcript"}

AsyncAppFns == {"cb_log", "cb_async"}

NextAsync ==
    \/ \E n \in AsyncNames, f \in AsyncAppFns : On(n, f)
    \/ pc = "setup" /\ Register(TRANSCRIPT_EVENT, Handler("h_async"))
    \/ \E auto \in BOOLEAN : RunStart(auto, DefaultReconnectDelay, "no_key")
    \/ \E c \in FrameContents(TRANSCRIPT_EVENT) :
          ReceiveFrame(TRANSCRIPT_EVENT, c)
    \/ InvokeSkipped
    \/ InvokeReturns
    \/ InvokeAwaits
    \/ InvokeResumes
    \/ InvokeNotAwaited
    \/ ExternalStop
    \/ RunLoopStep

SpecAsync == Init /\ [][NextAsync]_vars

----------------------------------------------------------------------------
(* The session with callbacks and threads that send *)

SendNames == {"transcript", "connection_rejected"}

SendFns == {"cb_send", "cb_stop"}

NextSend ==
    \/ \E n \in SendNames, f \in SendFns : On(n, f)
    \/ \E auto \in BOOLEAN : RunStart(auto, DefaultReconnectDelay, "no_key")
    \/ \E t \in {TRANSCRIPT_EVENT, CONNECTION_REJECTED_EVENT} :
          ReceiveFrame(t, KindSchema(t))
    \/ InvokeStops
    \/ InvokeSends
    \/ LoopRunsSend
    \/ LoopRunsCallback
    \/ ThreadSend
    \/ RunLoopStep

SpecSend == Init /\ [][NextSend]_vars

----------------------------------------------------------------------------
(* Outbound messages (models/outbound.py) and the send methods that build
   them (messaging.py) *)

\* BaseResponse: three fields, none with a default.
BaseResponseFields == {"message_id", "meeting_id", "timestamp"}

\* The fields of each reply class: those without a default, which the
\* constructor must be given, and those with one.
ReplySchema(cls) ==
    CASE cls = "GeneratedTextMessage" ->
            [required |-> BaseResponseFields \cup {"content"},
             defaults |-> {"type"}]
      [] cls = "CustomUIElementMessage" ->
            [required |-> BaseResponseFields \cup {"content"},
             defaults |-> {"type"}]
      [] cls = "ErrorResponse" ->
            [required |-> BaseResponseFields \cup {"error"},
             defaults |-> {"type", "error_code"}]

\* The constructor call of each send method: the class and the keyword
\* arguments it is given (messaging.py 76, 99, 282).
ConstructorCall(fn) ==
    CASE fn = "send_generated_text" ->
            [cls |-> "GeneratedTextMessage", given |-> {"content"}]
      [] fn = "send_custom_ui_element" ->
            [cls |-> "CustomUIElementMessage", given |-> {"content"}]
      [] fn = "send_error" ->
            [cls |-> "ErrorResponse", given |-> {"error", "error_code"}]

\* cls(**given): pydantic raises ValidationError when a field without a
\* default is not given.
Constructs(cls, given) == ReplySchema(cls).required \subseteq given

\* A call of a send method: the message is built first; when the constructor
\* raises, the exception leaves the method and nothing is scheduled.  A
\* message that was built goes to _send_model, which hands its dump to
\* Connection.send when connected and drops it otherwise.
SendCall(fn, conn) ==
    /\ LET c == ConstructorCall(fn) IN
        built' =
            IF Constructs(c.cls, c.given)
            THEN [fn |-> fn, connected |-> conn,
                  outcome |-> IF conn THEN "handed" ELSE "dropped",
                  fields |-> c.given \cup ReplySchema(c.cls).defaults]
            ELSE [fn |-> fn, connected |-> conn,
                  outcome |-> "ValidationError", fields |-> {}]
    /\ UNCHANGED <<dispVars, runVars, running, rejected, sendVars, bkVars,
                   startVars, frameVars, aliasVars, trip, joinVars>>

\* Questions given to send_mcq_question; withIds tells whether the message is
\* built as send_custom_ui_element builds it, without the fields of
\* BaseResponse, or by a caller that gives them.
McqInputs ==
    [id : {"q1", "q2"}, question : {"Pick one", "Why"},
     options : {<<>>, <<"A">>, <<"A", "B">>, <<"B", "A">>},
     withIds : BOOLEAN]

\* MCQQuestionElement(type="mcq_question", data=MCQQuestionData(id=...,
\* question=..., options=..., image_path=None)) (messaging.py 117-120).
MCQQuestionElement(id, question, options) ==
    [cls |-> "MCQQuestionElement",
     type |-> "mcq_question",
     data |-> [cls |-> "MCQQuestionData", id |-> id, question |-> question,
               options |-> options, image_path |-> "None"]]

\* CustomUIElementMessage(content=element, **base).
CustomUIElementMessage(base, element) ==
    IF BaseResponseFields \subseteq DOMAIN base
    THEN [ok |-> TRUE,
          msg |-> [cls |-> "CustomUIElementMessage",
                   message_id |-> base.message_id,
                   meeting_id |-> base.meeting_id,
                   timestamp |-> base.timestamp,
                   type |-> "custom_ui_element",
                   content |-> element]]
    ELSE [ok |-> FALSE]

\* model_dump() of a CustomUIElementMessage that carries an MCQ question:
\* nested dicts with the names of the fields as keys.
ModelDump(m) ==
    [message_id |-> m.message_id,
     meeting_id |-> m.meeting_id,
     timestamp |-> m.timestamp,
     type |-> m.type,
     content |-> [type |-> m.content.type,
                  data |-> [id |-> m.content.data.id,
                            question |-> m.content.data.question,
                            options |-> m.content.data.options,
                            image_path |-> m.content.data.image_path]]]

\* CustomUIElementResponse(**d) (inbound.py 140-144): type must be the
\* Literal "custom_ui"; content must be a CustomUIEvent, whose element_type,
\* element_id and action are required and whose data defaults to an empty
\* dict (inbound.py 72-80); other keys are ignored.
DecodeCustomUIElementResponse(d) ==
    IF /\ d.type = "custom_ui"
       /\ {"element_type", "element_id", "action"} \subseteq DOMAIN d.content
    THEN [ok |-> TRUE,
          data |-> IF "data" \in DOMAIN d.content THEN d.content.data
                   ELSE <<>>]
    ELSE [ok |-> FALSE]

\* An MCQ question is built, dumped, and decoded with the inbound model.
EncodeDecode(in) ==
    LET base == IF in.withIds
                THEN [message_id |-> "m1", meeting_id |-> "mt1",
                      timestamp |-> "t1"]
                ELSE <<>>
        b == CustomUIElementMessage(
                 base, MCQQuestionElement(in.id, in.question, in.options))
        d == DecodeCustomUIElementResponse(ModelDump(b.msg))
        failed(st) == [status |-> st, id |-> in.id, question |-> in.question,
                       options |-> in.options, withIds |-> in.withIds,
                       out_id |-> "", out_question |-> "",
                       out_options |-> <<>>]
    IN
    /\ trip' = IF ~b.ok THEN failed("ValidationError building")
               ELSE IF ~d.ok THEN failed("ValidationError decoding")
               ELSE [status |-> "decoded", id |-> in.id,
                     question |-> in.question, options |-> in.options,
                     withIds |-> in.withIds, out_id |-> d.data.id,
                     out_question |-> d.data.question,
                     out_options |-> d.data.options]
    /\ UNCHANGED <<dispVars, runVars, running, rejected, sendVars, bkVars,
                   startVars, frameVars, aliasVars, built, joinVars>>

NextOutbound ==
    \/ \E fn \in {"send_generated_text", "send_custom_ui_element",
                  "send_error"}, conn \in BOOLEAN : SendCall(fn, conn)
    \/ \E in \in McqInputs : EncodeDecode(in)

SpecOutbound == Init /\ [][NextOutbound]_vars

----------------------------------------------------------------------------
(* The default handlers: registrations undone, and run called again *)

\* app.event_dispatcher.register(event_type, fn), before run: the function
\* itself goes into the table, without the wrapper of App.on.
RegisterOwn(event_type, fn) ==
    /\ pc = "setup"
    /\ Register(event_type, Handler(fn))

\* app.event_dispatcher.unregister(event_type, fn), before run.  What the
\* application holds is its function: App.on returns func (app.py 213) and
\* keeps the type_safe_handler it registered to itself.
UnregisterOwn(event_type, fn) ==
    /\ pc = "setup"
    /\ Unregister(event_type, Handler(fn))

\* run has returned to its caller, which may call it again.
RunReturned ==
    /\ pc = "done"
    /\ pc' = "setup"
    /\ fails' = 0
    /\ rejected' = FALSE
    /\ authOutcome' = "unchecked"
    /\ stopAsked' = FALSE
    /\ UNCHANGED <<dispVars, connected, auto_reconnect, reconnect_delay,
                   waitFor, running, sendVars, bkVars, frameVars, aliasVars,
                   outVars, joinVars>>

NextDefault ==
    \/ \E n \in LiveNames : On(n, "cb_log")
    \/ \E n \in LiveNames : RegisterOwn(n, "cb_log")
    \/ \E n \in LiveNames : UnregisterOwn(n, "cb_log")
    \/ \E auto \in BOOLEAN : RunStart(auto, DefaultReconnectDelay, "no_key")
    \/ \E c \in FrameContents(CONNECTION_REJECTED_EVENT) :
          ReceiveFrame(CONNECTION_REJECTED_EVENT, c)
    \/ InvokeSkipped
    \/ InvokeReturns
    \/ InvokeStops
    \/ ExternalStop
    \/ RunLoopStep
    \/ RunReturned

SpecDefault == Init /\ [][NextDefault]_vars

----------------------------------------------------------------------------
(* The reconnect loops of AgentConnector.connect_and_listen and await_meeting *)

max_reconnect_delay == 60

Min(a, b) == IF a <= b THEN a ELSE b

\* The delay doubled without the ceiling.
NextDelayUncapped(d) == d * 2

\* reconnect_delay = min(reconnect_delay * 2, max_reconnect_delay)
NextDelay(d) == Min(d * 2, max_reconnect_delay)

\* The condition of the outer while: self.running in connect_and_listen,
\* not meeting_id in await_meeting (a meeting id that is found returns).
OuterCond(w) == IF w = "connect_and_listen" THEN brunning ELSE TRUE

\* The condition of the inner while: self.running, and True in await_meeting.
InnerCond(w) == IF w = "connect_and_listen" THEN brunning ELSE TRUE

\* connect_and_listen sleeps after a failure only if self.running;
\* await_meeting always sleeps.
SleepsOnFailure(w) == IF w = "connect_and_listen" THEN brunning ELSE TRUE

\* What the server can send to connect_and_listen: a start command for a
\* registered agent, one for an agent that is not in agent_modules, a JSON
\* object without agent_name or without meeting_id, text that is not JSON,
\* and JSON that is not an object.
AgentMessages ==
    {"start_known", "start_unknown", "missing_field", "not_json", "not_object"}

MeetingIds == {"m1", "m2"}

\* What the server can send to await_meeting: a JSON object with a
\* meeting_id, one without (or with an empty one), text that is not JSON, and
\* JSON that is not an object.
DiscoveryMessages == MeetingIds \cup {"no_meeting_id", "not_json", "not_object"}

\* A handle_message that starts a process for whatever can be parsed.
HandleMessageUnchecked(m) ==
    IF m = "not_json" THEN "json_error" ELSE "started"

\* handle_message (lines 71-94) with start_agent_process (lines 96-153):
\* json.loads raises JSONDecodeError (line 91); .get on a value that is not
\* a dict raises AttributeError, caught by line 93; a missing agent_name or
\* meeting_id gives the warning of line 89; an agent that is not registered
\* makes start_agent_process return False (lines 106-108); otherwise the
\* process is created, started and tracked.
HandleMessage(m) ==
    CASE m = "not_json"      -> "json_error"
      [] m = "not_object"    -> "error"
      [] m = "missing_field" -> "warning"
      [] m = "start_unknown" -> "unknown_agent"
      [] m = "start_known"   -> "started"

\* The inner loop of await_meeting on a message (lines 52-76): a non-empty
\* meeting_id is returned; a missing or empty one is logged (line 65) and
\* JSONDecodeError is logged (line 67), and the loop goes on; .get on a
\* value that is not a dict raises AttributeError, which the except clause
\* of line 74 answers with break.
Discover(m) ==
    CASE m \in MeetingIds     -> "return"
      [] m = "no_meeting_id"  -> "continue"
      [] m = "not_json"       -> "continue"
      [] m = "not_object"     -> "break"

\* The variables of the session of App, which the reconnect loops leave alone.
appVars == <<dispVars, runVars, running, rejected, sendVars, startVars,
             frameVars, aliasVars, outVars, joinVars>>

\* Both functions have been called: reconnect_delay = 1, and
\* connect_and_listen has set self.running.
InitBackoff ==
    /\ InitSession
    /\ bpc = [w \in Loops |-> "loop"]
    /\ bdelay = [w \in Loops |-> 1]
    /\ brunning = TRUE
    /\ btimeout \in BOOLEAN
    /\ bslept = [w \in Loops |-> <<>>]
    /\ bprev = [w \in Loops |-> 1]
    /\ bmsg = [w \in Loops |-> "none"]
    /\ bended = [w \in Loops |-> FALSE]
    /\ bresult = "pending"
    /\ active_agents = 0

\* The test of the outer while loop.
BkLoop(w) ==
    /\ bpc[w] = "loop"
    /\ bpc' = [bpc EXCEPT ![w] = IF OuterCond(w) THEN "connect" ELSE "done"]
    /\ UNCHANGED <<appVars, bdelay, brunning, btimeout, bslept, bprev, bmsg,
                   bended, bresult, active_agents>>

\* websockets.connect succeeds: reconnect_delay = 1.
BkConnectOk(w) ==
    /\ bpc[w] = "connect"
    /\ bprev' = [bprev EXCEPT ![w] = bdelay[w]]
    /\ bdelay' = [bdelay EXCEPT ![w] = 1]
    /\ bslept' = [bslept EXCEPT ![w] = <<>>]
    /\ bended' = [bended EXCEPT ![w] = FALSE]
    /\ bpc' = [bpc EXCEPT ![w] = "listen"]
    /\ UNCHANGED <<appVars, brunning, btimeout, bmsg, bresult, active_agents>>

\* websockets.connect raises: the outer except clause sleeps reconnect_delay.
BkConnectFails(w) ==
    /\ bpc[w] = "connect"
    /\ Len(bslept[w]) < MaxAttempts
    /\ bended' = [bended EXCEPT ![w] = TRUE]
    /\ IF SleepsOnFailure(w)
       THEN /\ bslept' = [bslept EXCEPT ![w] = Append(@, bdelay[w])]
            /\ bpc' = [bpc EXCEPT ![w] = "sleep"]
       ELSE /\ bpc' = [bpc EXCEPT ![w] = "loop"]
            /\ UNCHANGED bslept
    /\ UNCHANGED <<appVars, bdelay, brunning, btimeout, bprev, bmsg, bresult,
                   active_agents>>

\* The sleep is over: the delay is doubled up to the ceiling.
BkSleepDone(w) ==
    /\ bpc[w] = "sleep"
    /\ bdelay' = [bdelay EXCEPT ![w] = NextDelay(@)]
    /\ bended' = [bended EXCEPT ![w] = FALSE]
    /\ bpc' = [bpc EXCEPT ![w] = "loop"]
    /\ UNCHANGED <<appVars, brunning, btimeout, bslept, bprev, bmsg, bresult,
                   active_agents>>

\* The test of the inner while succeeds and the loop awaits websocket.recv().
BkReceive(w) ==
    /\ bpc[w] = "listen"
    /\ InnerCond(w)
    /\ bpc' = [bpc EXCEPT ![w] = "recv"]
    /\ bprev' = [bprev EXCEPT ![w] = 1]
    /\ UNCHANGED <<appVars, bdelay, brunning, btimeout, bslept, bmsg, bended,
                   bresult, active_agents>>

\* The pending recv returns a message.
BkRecvMessage(w, m) ==
    /\ bpc[w] = "recv"
    /\ m = "start_known" => active_agents < MaxAgents
    /\ bmsg' = [bmsg EXCEPT ![w] = m]
    /\ bpc' = [bpc EXCEPT ![w] = "handle"]
    /\ UNCHANGED <<appVars, bdelay, brunning, btimeout, bslept, bprev, bended,
                   bresult, active_agents>>

\* connect_and_listen: await self.handle_message(message) (line 56), and the
\* inner loop goes round.
BkHandleMessage ==
    /\ bpc["connect_and_listen"] = "handle"
    /\ active_agents' =
          IF HandleMessage(bmsg["connect_and_listen"]) = "started"
          THEN active_agents + 1 ELSE active_agents
    /\ bmsg' = [bmsg EXCEPT !["connect_and_listen"] = "none"]
    /\ bpc' = [bpc EXCEPT !["connect_and_listen"] = "listen"]
    /\ UNCHANGED <<appVars, bdelay, brunning, btimeout, bslept, bprev, bended,
                   bresult>>

\* await_meeting has received a message with a meeting_id and returns it.
BkRecvMeeting ==
    /\ bpc["await_meeting"] = "handle"
    /\ Discover(bmsg["await_meeting"]) = "return"
    /\ bresult' = bmsg["await_meeting"]
    /\ bmsg' = [bmsg EXCEPT !["await_meeting"] = "none"]
    /\ bpc' = [bpc EXCEPT !["await_meeting"] = "done"]
    /\ UNCHANGED <<appVars, bdelay, brunning, btimeout, bslept, bprev, bended,
                   active_agents>>

\* await_meeting has received a message it logs and passes over.
BkSkipMessage ==
    /\ bpc["await_meeting"] = "handle"
    /\ Discover(bmsg["await_meeting"]) = "continue"
    /\ bmsg' = [bmsg EXCEPT !["await_meeting"] = "none"]
    /\ bpc' = [bpc EXCEPT !["await_meeting"] = "listen"]
    /\ UNCHANGED <<appVars, bdelay, brunning, btimeout, bslept, bprev, bended,
                   bresult, active_agents>>

\* await_meeting has received a message whose handling raises: break, the
\* socket is closed and the outer loop goes round without sleeping.
BkBadMessage ==
    /\ bpc["await_meeting"] = "handle"
    /\ Discover(bmsg["await_meeting"]) = "break"
    /\ bmsg' = [bmsg EXCEPT !["await_meeting"] = "none"]
    /\ bended' = [bended EXCEPT !["await_meeting"] = TRUE]
    /\ bpc' = [bpc EXCEPT !["await_meeting"] = "loop"]
    /\ UNCHANGED <<appVars, bdelay, brunning, btimeout, bslept, bprev,
                   bresult, active_agents>>

\* await_meeting with a timeout: asyncio.TimeoutError returns None.
BkRecvTimeout ==
    /\ bpc["await_meeting"] = "recv"
    /\ btimeout
    /\ bresult' = "None"
    /\ bpc' = [bpc EXCEPT !["await_meeting"] = "done"]
    /\ UNCHANGED <<appVars, bdelay, brunning, btimeout, bslept, bprev, bmsg,
                   bended, active_agents>>

\* The pending recv raises ConnectionClosed or another exception: break, the
\* socket is closed and the outer loop goes round without sleeping.
BkRecvError(w) ==
    /\ bpc[w] = "recv"
    /\ bended' = [bended EXCEPT ![w] = TRUE]
    /\ bpc' = [bpc EXCEPT ![w] = "loop"]
    /\ UNCHANGED <<appVars, bdelay, brunning, btimeout, bslept, bprev, bmsg,
                   bresult, active_agents>>

\* The inner while of connect_and_listen ends because self.running is False.
BkInnerExit(w) ==
    /\ bpc[w] = "listen"
    /\ ~InnerCond(w)
    /\ bended' = [bended EXCEPT ![w] = TRUE]
    /\ bpc' = [bpc EXCEPT ![w] = "loop"]
    /\ bprev' = [bprev EXCEPT ![w] = 1]
    /\ UNCHANGED <<appVars, bdelay, brunning, btimeout, bslept, bmsg, bresult,
                   active_agents>>

\* AgentConnector.stop (lines 155-166), called while connect_and_listen is
\* suspended in a connect, a recv or a sleep: self.running = False, the
\* tracked processes are terminated and active_agents is cleared.  The
\* websocket is not closed and the pending call is not cancelled.
BkStop ==
    /\ brunning
    /\ bpc["connect_and_listen"] \in {"connect", "recv", "sleep"}
    /\ brunning' = FALSE
    /\ active_agents' = 0
    /\ UNCHANGED <<appVars, bpc, bdelay, btimeout, bslept, bprev, bmsg,
                   bended, bresult>>

\* The steps of await_meeting.
AwaitMeetingStep ==
    \/ BkLoop("await_meeting")
    \/ BkConnectOk("await_meeting")
    \/ BkConnectFails("await_meeting")
    \/ BkSleepDone("await_meeting")
    \/ BkReceive("await_meeting")
    \/ \E m \in DiscoveryMessages : BkRecvMessage("await_meeting", m)
    \/ BkRecvMeeting
    \/ BkSkipMessage
    \/ BkBadMessage
    \/ BkRecvTimeout
    \/ BkRecvError("await_meeting")

\* The steps of connect_and_listen.
ConnectAndListenStep ==
    \/ BkLoop("connect_and_listen")
    \/ BkConnectOk("connect_and_listen")
    \/ BkConnectFails("connect_and_listen")
    \/ BkSleepDone("connect_and_listen")
    \/ BkReceive("connect_and_listen")
    \/ \E m \in AgentMessages : BkRecvMessage("connect_and_listen", m)
    \/ BkHandleMessage
    \/ BkRecvError("connect_and_listen")
    \/ BkInnerExit("connect_and_listen")

NextBackoff ==
    \/ AwaitMeetingStep
    \/ ConnectAndListenStep
    \/ BkStop

SpecBackoff == InitBackoff /\ [][NextBackoff]_vars

\* await_meeting is a coroutine of a running event loop: a step it can take
\* is taken.
SpecAwait == InitBackoff /\ [][NextBackoff]_vars /\ WF_vars(AwaitMeetingStep)

-----------------------------------------------------------------------------
(* Properties of the session *)

\* The dispatch of a frame received by the run loop has returned.
FrameDispatched == pc = "dispatch" /\ dpc = "returned"

\* C4: a schema-valid frame of a kind that has a content schema is decoded
\* into the kind's typed record, and every callback registered for the kind
\* through App.on is called exactly once with that record.
C4_SchemaValidFrameReachesCallbacks ==
    ( /\ FrameDispatched
      /\ dtype \in DOMAIN message_type_mapping
      /\ ContentValidates(KindSchema(dtype), rawmsg.content)
      /\ Len(atCall) > 0 ) =>
        /\ IsInstance(dmsg, MessageClassOf(dtype))
        /\ called = [i \in 1..Len(atCall) |-> [fn |-> atCall[i].fn, msg |-> dmsg]]

\* C5: once a handler of a connection_rejected event has cleared the
\* running flag, run starts no connect and no receive any more.
C5_NoConnectNoReceiveAfterRejection ==
    rejected => pc \notin {"outer", "connect", "receive", "sleep"}

\* run was started with auto_reconnect, the rejection came while the
\* connection was up, and run has returned.
C5_Witness ==
    /\ rejected
    /\ auto_reconnect
    /\ pc = "done"

\* C6: every connection_rejected event received while the session is
\* running halts the run loop: when its dispatch returns the running flag
\* is false, with the default handler or with a handler of the
\* application, and whatever the content.
C6_RejectionAlwaysHalts ==
    (FrameDispatched /\ dtype = CONNECTION_REJECTED_EVENT) => ~running

----------------------------------------------------------------------------
(* Properties of dispatch *)

InvokedHandlers == [i \in 1..Len(invoked) |-> invoked[i].h]

\* C1: one dispatch call of kind K invokes the handlers that were in K's
\* list when dispatch was called, each exactly once and in registration
\* order, and no other handler: at every moment of the dispatch the
\* handlers invoked so far are a prefix of that list, and at the return
\* they are the whole list.
C1_DispatchInvokesListInOrder ==
    /\ dpc # "idle" =>
          /\ Len(invoked) <= Len(atCall)
          /\ InvokedHandlers = SubSeq(atCall, 1, Len(invoked))
    /\ dpc = "returned" => InvokedHandlers = atCall

\* A dispatch has returned after invoking two different handlers, a
\* handler edited the table meanwhile, and another kind has a handler too.
C1_Witness ==
    /\ dpc = "returned"
    /\ Len(invoked) >= 2
    /\ invoked[1].h # invoked[2].h
    /\ handlers[dtype] # atCall
    /\ \E k \in DOMAIN handlers \ {dtype} : Len(handlers[k]) > 0

\* C2: a handler that raises stops neither the later handlers of the same
\* dispatch nor the dispatch: no exception leaves dispatch, and at the
\* return every handler listed after a raising one has been invoked.
C2_HandlerFailureIsolated ==
    /\ ~escaped
    /\ dpc = "returned" =>
          \A i \in 1..Len(atCall) :
              atCall[i].fn = "h_raise" =>
                  \A j \in (i+1)..Len(atCall) :
                      j <= Len(invoked) /\ invoked[j].h = atCall[j]

\* A dispatch has returned in which the first two handlers raised and a
\* third one ran after them.
C2_Witness ==
    /\ dpc = "returned"
    /\ Len(invoked) = 3
    /\ invoked[1].h.fn = "h_raise"
    /\ invoked[2].h.fn = "h_raise"
    /\ invoked[3].h.fn = "h_ok"

\* The dispatch in progress was given a dict whose conversion raised.
DecodeFailed == dpc # "idle" /\ ConversionFailed(dtype, rawmsg)

----------------------------------------------------------------------------
(* Properties of MessageSender *)

SendIds == 1..MaxSends

-----------------------------------------------------------------------------
(* Properties of the reconnect loops *)

\* C7: in the reconnect loops of connect_and_listen and await_meeting the
\* delays waited after consecutive failed connection attempts are
\* 1,2,4,8,16,32,60,60,..., the delay is 1 right after a successful connect,
\* and 1 <= delay <= 60 in every reachable state.
C7_BackoffDoublesCappedAndResets ==
    \A w \in Loops :
        /\ 1 <= bdelay[w] /\ bdelay[w] <= 60
        /\ \A k \in 1..Len(bslept[w]) : bslept[w][k] = Backoff(k)
        /\ bpc[w] = "listen" => bdelay[w] = 1 /\ bslept[w] = <<>>

\* connect_and_listen sleeps 60 for the second time after eight failures in a
\* row, while await_meeting has just connected after its delay reached 60.
C7_Witness ==
    /\ bpc["connect_and_listen"] = "sleep"
    /\ Len(bslept["connect_and_listen"]) = 8
    /\ bslept["connect_and_listen"][7] = 60
    /\ bslept["connect_and_listen"][8] = 60
    /\ bpc["await_meeting"] = "listen"
    /\ bprev["await_meeting"] = 60
    /\ bdelay["await_meeting"] = 1

-----------------------------------------------------------------------------
(* Properties of the order of sends *)

\* _send_model of request i has reached its call of connection.send.
SendStarted(i) == outcome[i] \in {"sent", "send_failed"}

\* C11: sends requested from the same context (both as tasks created by
\* handlers, or both through run_coroutine_threadsafe) reach
\* connection.send in submission order: when the later request has reached
\* it, the earlier one is no longer waiting on the loop.
C11_SendsInSubmissionOrder ==
    \A i \in SendIds : \A j \in SendIds :
        (i < j /\ origin[i] = origin[j] /\ SendStarted(j)) =>
            outcome[i] # "scheduled"

\* Two requests of one thread have both been handed to connection.send.
C11_Witness ==
    /\ origin[1] = "threadsafe" /\ origin[2] = "threadsafe"
    /\ SendStarted(1) /\ SendStarted(2)

-----------------------------------------------------------------------------
(* Properties of stopping *)

\* run starts a connect or a receive in this step.
StartsConnectOrReceive == pc' \in {"connect", "receive"} /\ pc' # pc

\* A received frame is handed to handlers in this step.
FrameReachesHandlers == pc = "receive" /\ pc' = "dispatch" /\ Len(snapshot') > 0

\* C12: once stop has cleared the running flag, run starts no connect and no
\* receive, and a frame whose receive completes after the stop is not handed
\* to any handler.
C12_StopObservedAfterSuspension ==
    [][(StartsConnectOrReceive \/ FrameReachesHandlers) => running]_vars

-----------------------------------------------------------------------------
(* Properties of the end of run *)

\* run has returned, or has raised AuthenticationError.
Exits == {"done", "raised"}

\* C13: after a stop or a rejection that clears the flag run eventually
\* returns, and whenever run has ended (stop, rejection, auto_reconnect off,
\* interrupt, error) the running flag is false and the connection is not
\* connected.
C13_RunReturnsStoppedAndDisconnected ==
    /\ [](pc \in Exits => ~running /\ ~connected)
    /\ (pc # "setup" /\ ~running) ~> (pc \in Exits)

\* run has returned after a session that was connected and that the
\* application ended itself.
C13_Witness ==
    /\ pc = "done"
    /\ stopAsked
    /\ auto_reconnect
    /\ authOutcome = "ok"
    /\ fails = 0

\* C18: when the credential check returns False or raises, run ends with
\* AuthenticationError: nothing was connected, no retry was made, no default
\* handler was registered and the running flag is not set.
C18_AuthFailureIsFatal ==
    authOutcome \in {"false", "raises"} =>
        /\ pc = "raised"
        /\ ~running
        /\ ~connected
        /\ fails = 0
        /\ \A k \in DOMAIN handlers : \A i \in 1..Len(handlers[k]) :
              handlers[k][i].fn # "default_connection_rejected_handler"

\* The check raised in an application that had registered a callback.
C18_Witness ==
    /\ authOutcome = "raises"
    /\ pc = "raised"
    /\ TotalHandlers(handlers) > 0

\* C19: with auto_reconnect, every lost connection and every failed connect
\* is followed by another connect attempt, unless the application asks run
\* to end.
C19_ReconnectsForever ==
    (auto_reconnect /\ running /\ pc \in {"after_inner", "sleep"}) ~>
        (pc = "connect" \/ stopAsked)

\* A connect attempt is under way after three failures in a row.
C19_Witness ==
    /\ pc = "connect"
    /\ fails = 3
    /\ auto_reconnect
    /\ ~stopAsked

\* C20: with auto_reconnect off, after the first lost connection or failed
\* connect run makes no further connect attempt and returns with the running
\* flag false.
C20_NoReconnectWhenDisabled ==
    /\ []((~auto_reconnect /\ fails >= 1) => pc \in {"finally", "disconnect", "done"})
    /\ (~auto_reconnect /\ fails >= 1) ~> (pc = "done" /\ ~running)

\* run has returned after its only connection was lost.
C20_Witness ==
    /\ ~auto_reconnect
    /\ fails = 1
    /\ pc = "done"
    /\ ~stopAsked
    /\ ~running

-----------------------------------------------------------------------------
(* Properties of synchronous and suspending handlers *)

\* C14: frames are dispatched one at a time: run leaves the dispatch of a
\* frame only when dispatch has returned and every handler of the frame has
\* finished, and while a receive is pending no dispatch is under way.
C14_NoOverlapBetweenFrames ==
    /\ [][(pc = "dispatch" /\ pc' # "dispatch") =>
             (dpc = "returned" /\ Len(invoked) = Len(atCall))]_vars
    /\ [](pc = "receive" => dpc = "idle")

\* The dispatch of a frame has returned after a suspending handler and a
\* synchronous one have both run to their end.
C14_Witness ==
    /\ FrameDispatched
    /\ Len(called) = 2
    /\ \E i \in 1..2 : called[i].fn = "h_async"
    /\ \E i \in 1..2 : called[i].fn = "cb_log"

\* C15: a suspending callback registered through App.on has run to its end
\* when the dispatch of a matching event returns.
C15_AsyncCallbackRuns ==
    FrameDispatched =>
        \A i \in 1..Len(atCall) :
            (atCall[i].wrap /\ atCall[i].fn \in AsyncFns
                /\ PassesTypeCheck(atCall[i], dmsg)) =>
                \E j \in 1..Len(called) : called[j].fn = atCall[i].fn

-----------------------------------------------------------------------------
(* Properties of frames that cannot be decoded *)

\* C16: a received frame that is not valid structured data, or that has no
\* type, reaches no handler and is logged as exactly one error, and the
\* session goes on with the next frame, running and connected.
C16_UndecodableFrameLoggedOnce ==
    (running /\ lastFrame \in {"no_type", "malformed"}) =>
        /\ logged = 1
        /\ dpc = "idle"
        /\ pc = "inner"
        /\ connected

-----------------------------------------------------------------------------
(* Properties of alias resolution *)

\* C17: the alias lookup of App.on gives one kind for every name; what it
\* gives resolves to itself, "join" gives the join kind, a name that is not
\* in the table is given back unchanged, and so every key under which
\* App.on registers a handler resolves to itself.
C17_AliasResolutionIdempotent ==
    /\ Resolve(resolved.kind) = resolved.kind
    /\ resolved.name = "join" => resolved.kind = JOIN_EVENT
    /\ resolved.name \notin DOMAIN event_aliases => resolved.kind = resolved.name
    /\ \A x \in AliasInputs : Resolve(Resolve(x)) = Resolve(x)
    /\ \A k \in DOMAIN handlers : Resolve(k) = k

\* "join" has been looked up, and a handler registered under an alias sits
\* under the kind of the alias.
C17_Witness ==
    /\ resolved = [name |-> "join", kind |-> "on_join"]
    /\ CUSTOM_UI_EVENT \in DOMAIN handlers

----------------------------------------------------------------------------
(* Properties of the handler table *)

\* The kinds and handlers given to register and unregister.
TableKinds == DirectKinds

TableHandlers == {Handler(f) : f \in DirectFns}

\* The list of a kind, empty when the kind is not in the table.
ListOf(tab, k) == IF k \in DOMAIN tab THEN tab[k] ELSE <<>>

\* C21: a dispatch of a kind that has no handler, because the kind was never
\* registered or because all its handlers were unregistered, invokes no
\* handler, lets no exception out, and leaves the handler table as it was from
\* the call to the return.
C21_DispatchWithoutHandlersIsNoOp ==
    /\ [](dpc # "idle" /\ atCall = <<>>
            => invoked = <<>> /\ called = <<>> /\ ~escaped)
    /\ [][(dpc' # "idle" /\ atCall' = <<>>) => handlers' = handlers]_vars

\* Another kind has handlers; the dispatched kind is in the table with an
\* empty list, and the dispatch has returned.
C21_Witness ==
    /\ dpc = "returned"
    /\ dtype \in DOMAIN handlers
    /\ handlers[dtype] = <<>>
    /\ TotalHandlers(handlers) > 0

\* What unregister(k, h) must do to the table tab, giving t2 and ret.
UnregisterPost(tab, t2, ret, k, h) ==
    LET old == ListOf(tab, k) IN
    /\ ret = (\E i \in 1..Len(old) : old[i] = h)
    /\ IF ret
       THEN LET first == CHOOSE i \in 1..Len(old) :
                            old[i] = h /\ \A j \in 1..(i-1) : old[j] # h
            IN /\ DOMAIN t2 = DOMAIN tab
               /\ t2[k] = [j \in 1..(Len(old) - 1) |->
                               IF j < first THEN old[j] ELSE old[j + 1]]
               /\ \A x \in DOMAIN tab \ {k} : t2[x] = tab[x]
       ELSE t2 = tab

\* C22: unregister returns True exactly when the handler is in the list of
\* the kind; it then removes the earliest occurrence only and keeps the other
\* handlers of the kind in order; when it returns False the table is
\* unchanged; the lists of other kinds never change.
C22_UnregisterRemovesEarliestOnly ==
    \A k \in TableKinds, h \in TableHandlers :
        UnregisterPost(handlers, UnregisterIn(handlers, k, h),
                       UnregisterReturn(handlers, k, h), k, h)

\* A kind holds a handler twice, around another one: unregister has two
\* occurrences to choose from and other handlers to keep in order.
C22_Witness ==
    \E k \in DOMAIN handlers :
        /\ Len(handlers[k]) = 3
        /\ handlers[k][1] = handlers[k][3]
        /\ handlers[k][1] # handlers[k][2]

\* What register(k, h) must do to the table tab, giving t2.
RegisterPost(tab, t2, k, h) ==
    LET old == ListOf(tab, k) IN
    /\ DOMAIN t2 = DOMAIN tab \cup {k}
    /\ Len(t2[k]) = Len(old) + 1
    /\ t2[k][Len(old) + 1] = h
    /\ \A i \in 1..Len(old) : t2[k][i] = old[i]
    /\ \A x \in DOMAIN tab \ {k} : t2[x] = tab[x]

\* C23: register appends the handler at the end of the list of the kind:
\* the handlers already there keep their positions, a handler registered
\* twice is there twice, and the lists of other kinds are unchanged.
C23_RegisterAppendsOnly ==
    \A k \in TableKinds, h \in TableHandlers :
        RegisterPost(handlers, RegisterIn(handlers, k, h), k, h)

\* A kind holds the same handler twice, next to another kind with a handler.
C23_Witness ==
    \E k \in DOMAIN handlers, x \in DOMAIN handlers :
        /\ x # k
        /\ Len(handlers[k]) >= 2
        /\ handlers[k][1] = handlers[k][2]
        /\ Len(handlers[x]) >= 1

----------------------------------------------------------------------------
(* Properties of outbound messages *)

\* C24: an MCQ question built from (id, question, options) with the
\* constructors of send_mcq_question, encoded, and decoded through the
\* inbound model of UI-element messages, comes back with the same id,
\* question and options.
C24_McqQuestionRoundTrip ==
    trip.status # "none" =>
        /\ trip.status = "decoded"
        /\ trip.out_id = trip.id
        /\ trip.out_question = trip.question
        /\ trip.out_options = trip.options

\* The fields of a complete reply message.
ReplyFields == BaseResponseFields \cup {"type", "content"}

\* C25: each call of send_generated_text, send_custom_ui_element or
\* send_error made while connected builds a message that has message_id,
\* meeting_id, timestamp, type and content, and hands it to Connection.send.
C25_SendBuildsCompleteReply ==
    (built.fn # "none" /\ built.connected) =>
        /\ built.outcome = "handed"
        /\ ReplyFields \subseteq built.fields

----------------------------------------------------------------------------
(* Properties of a table edited during a dispatch *)

\* C26: the for loop of dispatch runs over the list as it was when dispatch
\* was called.  When handlers of the dispatched kind were registered or
\* unregistered by a handler meanwhile, the handlers invoked at the return
\* are still exactly those of the list at the call, once each and in order:
\* a handler added meanwhile is not among them, a handler removed meanwhile
\* is.  The next dispatch starts from the table as it is then.
C26_DispatchIteratesSnapshot ==
    /\ [](dpc = "returned" /\ dtype \in DOMAIN handlers
              /\ handlers[dtype] # atCall
            => InvokedHandlers = atCall)
    /\ [][(dpc = "idle" /\ dpc' # "idle" /\ dtype' \in DOMAIN handlers)
            => atCall' = handlers[dtype']]_vars

\* A dispatch of two handlers has returned: the first one unregistered the
\* second, which was invoked all the same.
C26_Witness ==
    /\ dpc = "returned"
    /\ atCall = <<Handler("h_edit"), Handler("h_ok")>>
    /\ handlers[dtype] = <<Handler("h_edit")>>
    /\ InvokedHandlers = atCall

----------------------------------------------------------------------------
(* Properties of a handler that fails inside run *)

\* A callback has raised in the dispatch in progress.
HasRaised == \E i \in 1..Len(called) : called[i].fn = "h_raise"

\* The step in which a callback raises, inside run.
HandlerRaises ==
    /\ pc = "dispatch"
    /\ Len(called') = Len(called) + 1
    /\ called'[Len(called')].fn = "h_raise"

\* C27: a handler that raises during a dispatch inside run does not end the
\* session: the step leaves the running flag, the connection state and the
\* handler table as they were and run stays in its dispatch; and when the
\* session was running and connected, run comes back to receive the next
\* frame, unless the application asks it to stop meanwhile.
C27_HandlerFailureKeepsSession ==
    /\ [][HandlerRaises =>
            /\ running' = running
            /\ connected' = connected
            /\ handlers' = handlers
            /\ pc' = pc]_vars
    /\ (pc = "dispatch" /\ HasRaised /\ running /\ connected)
          ~> (pc = "receive" \/ stopAsked)

\* A dispatch inside run has returned in which a callback raised and a later
\* one ran; the session is running and connected.
C27_Witness ==
    /\ pc = "dispatch"
    /\ dpc = "returned"
    /\ Len(called) >= 2
    /\ called[1].fn = "h_raise"
    /\ called[2].fn = "cb_log"
    /\ running
    /\ connected
    /\ ~stopAsked

----------------------------------------------------------------------------
(* Properties of what callbacks are given *)

\* The record type of each kind that has one (models/inbound.py).
SchemaOfKind ==
    [k \in {TRANSCRIPT_EVENT, INVOKE_EVENT, JOIN_EVENT, EXIT_EVENT,
            CUSTOM_UI_EVENT, CONNECTION_REJECTED_EVENT} |->
        CASE k = TRANSCRIPT_EVENT          -> "TranscriptMessage"
          [] k = INVOKE_EVENT              -> "InvokeMessage"
          [] k = JOIN_EVENT                -> "JoinMessage"
          [] k = EXIT_EVENT                -> "ExitMessage"
          [] k = CUSTOM_UI_EVENT           -> "CustomUIElementResponse"
          [] k = CONNECTION_REJECTED_EVENT -> "ConnectionRejectedMessage"]

\* C28: in a dispatch of run, a callback registered through App.on for a
\* kind that has a record type is called only with a record of that type,
\* never with the raw dict or with a record of another kind; only kinds
\* without a record type (the UI-element subtypes) give callbacks the dict.
C28_CallbacksGetTypedRecords ==
    (pc = "dispatch" /\ dtype \in DOMAIN SchemaOfKind) =>
        \A i \in 1..Len(called) :
            /\ called[i].msg.form = "model"
            /\ called[i].msg.cls = SchemaOfKind[dtype]

\* A frame of a kind with a record type stayed a dict, its callback was
\* reached by the dispatch and the wrapper did not call it.
C28_Witness ==
    /\ pc = "dispatch"
    /\ dtype \in DOMAIN SchemaOfKind
    /\ dmsg.form = "dict"
    /\ Len(invoked) >= 1
    /\ invoked[1].h.fn = "cb_log"
    /\ called = <<>>

\* C29: the type of a frame is resolved through the alias table before the
\* handlers are looked up: the handlers a frame reaches are those registered
\* for the kind its type resolves to.
C29_FrameTypeResolvedBeforeLookup ==
    (pc = "dispatch" /\ dpc # "idle") =>
        atCall = ListOf(handlers, Resolve(dtype))

----------------------------------------------------------------------------
(* Properties of the default handlers *)

\* The default handlers in the list of connection_rejected.
DefaultsInstalled ==
    {i \in 1..Len(ListOf(handlers, CONNECTION_REJECTED_EVENT)) :
        handlers[CONNECTION_REJECTED_EVENT][i] = DefaultHandler}

\* C30: while run is in its loop at least one handler is registered for
\* connection_rejected, whatever the application registered and unregistered
\* before; and the default handler is never in the table more than once,
\* however often run is called.
C30_RejectionAlwaysHasHandler ==
    /\ pc \notin {"setup", "raised", "done"} =>
          Len(ListOf(handlers, CONNECTION_REJECTED_EVENT)) >= 1
    /\ Cardinality(DefaultsInstalled) <= 1

----------------------------------------------------------------------------
(* Properties of a send that fails *)

\* The send requests whose coroutine has ended.
SendEnded(i) == outcome[i] \in {"sent", "send_failed", "dropped"}

\* The send requests that have an entry in the ready queue.
Queued == {ready[k].id : k \in 1..Len(ready)}

\* C32: a failure of Connection.send inside _send_model is caught there: the
\* step in which a send fails changes neither the running flag nor the
\* connection state nor the position of run, no exception reaches the
\* dispatch, and the other scheduled sends stay scheduled.
C32_SendFailureIsContained ==
    [][\A i \in SendIds :
          (outcome[i] = "scheduled" /\ outcome'[i] = "send_failed") =>
              /\ running' = running
              /\ connected' = connected
              /\ pc' = pc
              /\ dpc' = dpc
              /\ escaped' = escaped
              /\ \A j \in SendIds \ {i} :
                    /\ outcome'[j] = outcome[j]
                    /\ j \in Queued => j \in Queued']_vars

\* A send failed in a running session and a send requested later went out.
C32_Witness ==
    /\ running
    /\ \E i, j \in SendIds :
          i < j /\ outcome[i] = "send_failed" /\ outcome[j] = "sent"

\* C33: a send request leads to at most one run of _send_model: once its
\* coroutine has ended (sent, failed, or dropped on a connection that was
\* not connected) it is never scheduled again and its outcome never changes,
\* whatever the connection does afterwards.
C33_NoRedelivery ==
    [][\A i \in SendIds :
          SendEnded(i) => (outcome'[i] = outcome[i] /\ i \notin Queued')]_vars

\* A send was dropped while the connection was down, the connection is up
\* again and run is receiving.
C33_Witness ==
    /\ pc = "receive"
    /\ connected
    /\ \E i \in SendIds : outcome[i] = "dropped"

----------------------------------------------------------------------------
(* Properties of undoing a registration *)

\* The entries of the table that App.on put there.
OnEntries ==
    {e \in [k : DOMAIN handlers, i : 1..MaxHandlers] :
        e.i <= Len(handlers[e.k]) /\ handlers[e.k][e.i].wrap}

\* C39: a registration made through App.on is undone by unregister: for
\* every function f that app.on(kind)(f) registered, unregister(kind, f)
\* returns True and leaves a table in which f is no longer reached for that
\* kind through the registration removed.
C39_OnUndoneByUnregister ==
    \A e \in OnEntries :
        LET f == Handler(handlers[e.k][e.i].fn) IN
        /\ UnregisterReturn(handlers, e.k, f)
        /\ Len(UnregisterIn(handlers, e.k, f)[e.k]) = Len(handlers[e.k]) - 1

----------------------------------------------------------------------------
(* Properties of the sockets of one App *)

\* run starts waiting for a connect, or for a frame.
StartsConnect == pc # "connect" /\ pc' = "connect"

StartsReceive == pc # "receive" /\ pc' = "receive"

\* C34: run starts a connect only when the current connection is not
\* connected and the running flag is set, and a receive only when it is
\* connected and the flag is set; and one App never has a second socket open
\* while one is open.
C34_OneSocketPerApp ==
    /\ [][StartsConnect => (~connected /\ running)]_vars
    /\ [][StartsReceive => (connected /\ running)]_vars
    /\ [](~(connected /\ orphaned))

----------------------------------------------------------------------------
(* Properties of connect_and_listen and await_meeting *)

\* C31: in both reconnect loops every connection attempt that follows a
\* connect error or the end of an established connection comes after a wait
\* of the current delay: no attempt starts while a connection has ended and
\* the loop has not slept since.
C31_ReconnectAfterWait ==
    \A w \in Loops : bpc[w] = "connect" => ~bended[w]

\* await_meeting has dealt with the message it received.
DiscoveryHandled ==
    /\ bpc["await_meeting"] = "handle"
    /\ bpc'["await_meeting"] # "handle"

\* C35: await_meeting returns the meeting_id of the first message that has a
\* non-empty one; a message that is not JSON or has no meeting_id is passed
\* over, the connection is kept and nothing is returned; a receive timeout
\* returns None.
C35_AwaitMeetingReturnsFirstId ==
    /\ [][DiscoveryHandled =>
            IF bmsg["await_meeting"] \in MeetingIds
            THEN /\ bpc'["await_meeting"] = "done"
                 /\ bresult' = bmsg["await_meeting"]
            ELSE /\ bpc'["await_meeting"] = "listen"
                 /\ bresult' = "pending"]_vars
    /\ [][(bpc["await_meeting"] = "recv" /\ bpc'["await_meeting"] = "done") =>
            bresult' = "None"]_vars
    /\ [](bresult # "pending" => bpc["await_meeting"] = "done")

\* C36: when a timeout is given, await_meeting returns in the end, whatever
\* the connection attempts and the connection do.
C36_AwaitMeetingReturns ==
    btimeout => <>(bpc["await_meeting"] = "done")

\* handle_message has dealt with the message connect_and_listen received.
MessageHandled ==
    /\ bpc["connect_and_listen"] = "handle"
    /\ bpc'["connect_and_listen"] # "handle"

C38_NothingStartsAfterStop ==
    /\ [](~brunning => active_agents = 0)
    /\ [][~brunning =>
            ~(/\ bpc["connect_and_listen"] # "connect"
              /\ bpc'["connect_and_listen"] = "connect")]_vars

====
